---- MODULE Spec2Model ----
(***************************************************************************)
(* Model of PythonImageViewer/imageviewer.py: the Application object of    *)
(* the map digitiser (affine viewport, coordinate mapping, point capture,  *)
(* scale calibration and point export).                                    *)
(*                                                                         *)
(* Numbers that the program holds as Python floats are modelled as exact   *)
(* rationals <<numerator, denominator>> in lowest terms: the model states  *)
(* what the arithmetic of the code computes over the reals and does not    *)
(* model binary rounding.                                                  *)
(***************************************************************************)
EXTENDS Integers, Sequences, FiniteSets, TLC

VARIABLES
    pil_image,          \* self.pil_image: None or the opened image
    filename,           \* self.filename: None or the path chosen in File > Open
    mat_affine,         \* self.mat_affine: 3x3 matrix, image -> canvas
    canvas,             \* what canvas.winfo_width()/winfo_height() answer
    points_list,        \* self.points_list: the captured points, as text lines
    dpi,                \* self.dpi
    map_scale,          \* self.map_scale
    mpi,                \* self.mpi
    old_event,          \* self.__old_event: the last recorded pointer event
    drag_flag,          \* self.drag_flag
    button1,            \* whether the left button is held (B1-Motion needs it)
    label_image_pixel,  \* the status bar text written by mouse_move
    disk,               \* the export file last written: None or name and lines
    ngestures           \* number of pan/zoom gestures so far (bounded)

vars == << pil_image, filename, mat_affine, canvas, points_list, dpi,
           map_scale, mpi, old_event, drag_flag, button1,
           label_image_pixel, disk, ngestures >>

(***************************************************************************)
(* Bounds of the model.                                                    *)
(***************************************************************************)
MaxGestures == 2
MaxPoints == 2

(***************************************************************************)
(* Python values.                                                          *)
(***************************************************************************)
None == [tag |-> "None"]
Str(s) == [tag |-> "str", s |-> s]
Num(r) == [tag |-> "float", v |-> r]

(***************************************************************************)
(* Exact rational arithmetic.                                              *)
(***************************************************************************)
Abs(n) == IF n < 0 THEN -n ELSE n

RECURSIVE GCD(_, _)
GCD(a, b) == IF b = 0 THEN a ELSE GCD(b, a % b)

Rat(n, d) ==
    LET g == GCD(Abs(n), Abs(d))
        s == IF d < 0 THEN -1 ELSE 1
    IN  << (s * n) \div g, (s * d) \div g >>

RInt(n) == << n, 1 >>

\* sums and products cancel common factors before they multiply, so that
\* the integers stay small
RAdd(p, q) ==
    LET g == GCD(p[2], q[2])
    IN  Rat(p[1] * (q[2] \div g) + q[1] * (p[2] \div g), (p[2] \div g) * q[2])

RMul(p, q) ==
    LET g1 == GCD(Abs(p[1]), q[2])
        g2 == GCD(Abs(q[1]), p[2])
    IN  << (p[1] \div g1) * (q[1] \div g2), (p[2] \div g2) * (q[2] \div g1) >>

RSub(p, q) == RAdd(p, << -q[1], q[2] >>)
RDiv(p, q) == RMul(p, IF q[1] < 0 THEN << -q[2], -q[1] >> ELSE << q[2], q[1] >>)
RNeg(p) == << -p[1], p[2] >>
RLt(p, q) == p[1] * q[2] < q[1] * p[2]
RGt(p, q) == RLt(q, p)
RLe(p, q) == ~RLt(q, p)
Zero == RInt(0)
One == RInt(1)

(***************************************************************************)
(* numpy: np.eye(3), np.dot on 3x3 matrices and on a matrix and a vector,  *)
(* np.linalg.inv.                                                          *)
(***************************************************************************)
Eye3 == << << One, Zero, Zero >>, << Zero, One, Zero >>, << Zero, Zero, One >> >>

Dot3(u, v) == RAdd(RAdd(RMul(u[1], v[1]), RMul(u[2], v[2])), RMul(u[3], v[3]))

Col(m, j) == << m[1][j], m[2][j], m[3][j] >>

Row(a, i, b) == << Dot3(a[i], Col(b, 1)), Dot3(a[i], Col(b, 2)), Dot3(a[i], Col(b, 3)) >>

MatMul(a, b) == << Row(a, 1, b), Row(a, 2, b), Row(a, 3, b) >>

MatVec(a, v) == << Dot3(a[1], v), Dot3(a[2], v), Dot3(a[3], v) >>

\* the 2x2 minor of m that leaves out row i and column j
Minor(m, i, j) ==
    LET r == IF i = 1 THEN << 2, 3 >> ELSE IF i = 2 THEN << 1, 3 >> ELSE << 1, 2 >>
        c == IF j = 1 THEN << 2, 3 >> ELSE IF j = 2 THEN << 1, 3 >> ELSE << 1, 2 >>
    IN  RSub(RMul(m[r[1]][c[1]], m[r[2]][c[2]]),
             RMul(m[r[1]][c[2]], m[r[2]][c[1]]))

Cofactor(m, i, j) ==
    IF (i + j) % 2 = 0 THEN Minor(m, i, j) ELSE RNeg(Minor(m, i, j))

Det(m) ==
    RAdd(RAdd(RMul(m[1][1], Cofactor(m, 1, 1)), RMul(m[1][2], Cofactor(m, 1, 2))),
         RMul(m[1][3], Cofactor(m, 1, 3)))

LinAlgError == << "LinAlgError" >>

\* np.linalg.inv: the inverse, or LinAlgError for a singular matrix
MatInv(m) ==
    LET d == Det(m)
    IN  IF d = Zero THEN LinAlgError
        ELSE << << RDiv(Cofactor(m, 1, 1), d), RDiv(Cofactor(m, 2, 1), d),
                   RDiv(Cofactor(m, 3, 1), d) >>,
                << RDiv(Cofactor(m, 1, 2), d), RDiv(Cofactor(m, 2, 2), d),
                   RDiv(Cofactor(m, 3, 2), d) >>,
                << RDiv(Cofactor(m, 1, 3), d), RDiv(Cofactor(m, 2, 3), d),
                   RDiv(Cofactor(m, 3, 3), d) >> >>

(***************************************************************************)
(* The environment: the image files that File > Open can choose, the       *)
(* sizes the canvas can have, the positions pointer events can carry and   *)
(* the texts the dialogs can return.                                       *)
(***************************************************************************)
\* a path, as the tuple of its parts between dots: "a.png" is <<"a", "png">>
Path(parts) == [tag |-> "str", parts |-> parts]
EmptyPath == Path(<< "" >>)

Image(w, h, d) == [tag |-> "Image", width |-> w, height |-> h, info_dpi |-> d]

\* info of an image that has no 'dpi' key
NoDpi == << >>

\* Image.open: width, height and info['dpi'] of each file
Files ==
    { [path |-> Path(<< "a", "png" >>), image |-> Image(4, 2, << 0, 0 >>)],
      [path |-> Path(<< "b", "tif" >>), image |-> Image(2, 4, << 72, 72 >>)],
      [path |-> Path(<< "z", "bmp" >>), image |-> Image(0, 3, NoDpi)] }

CanvasSizes ==
    { [width |-> 4, height |-> 2], [width |-> 2, height |-> 2],
      [width |-> 3, height |-> 5], [width |-> 0, height |-> 2] }

Pointer == { << 0, 0 >>, << 4, 2 >>, << 2, 1 >>, << -1, 3 >> }

Event(p) == [tag |-> "event", x |-> p[1], y |-> p[2]]

\* what the DPI and map scale prompts return (None: the prompt was cancelled)
Answers == { None, Str("5"), Str("x") }

\* what the point name prompt returns
Names == { None, Str(""), Str("A") }

ValueError == << "ValueError" >>

\* float(text) for the texts of Answers
float(text) ==
    CASE text = "5" -> RInt(5)
      [] text = "2" -> RInt(2)
      [] OTHER -> ValueError

\* 20.1168
ChainsFactor == Rat(201168, 10000)

(***************************************************************************)
(* Text formatting: f"{v:.0f}" and f"{v:.2f}".                             *)
(***************************************************************************)
RoundHalfEven(r) ==
    LET q == r[1] \div r[2]
        rem == r[1] - q * r[2]
    IN  IF 2 * rem < r[2] THEN q
        ELSE IF 2 * rem > r[2] THEN q + 1
        ELSE IF q % 2 = 0 THEN q ELSE q + 1

Fmt0(r) ==
    LET n == RoundHalfEven(r)
    IN  IF n = 0 /\ r[1] < 0 THEN "-0" ELSE ToString(n)

Fmt2(r) ==
    LET h == RoundHalfEven(RMul(r, RInt(100)))
        a == Abs(h)
        frac == a % 100
    IN  (IF r[1] < 0 THEN "-" ELSE "") \o ToString(a \div 100) \o "."
        \o (IF frac < 10 THEN "0" ELSE "") \o ToString(frac)

(***************************************************************************)
(* Affine transformation for image display.                                *)
(***************************************************************************)
reset_transform == Eye3

translate(m, offset_x, offset_y) ==
    LET mat == << << One, Zero, offset_x >>, << Zero, One, offset_y >>,
                  << Zero, Zero, One >> >>
    IN  MatMul(mat, m)

scale(m, s) ==
    LET mat == << << s, Zero, Zero >>, << Zero, s, Zero >>,
                  << Zero, Zero, One >> >>
    IN  MatMul(mat, m)

\* scale_at that scales about the origin instead of (cx, cy)
scale_at_origin(m, s, cx, cy) == scale(m, s)

scale_at(m, s, cx, cy) ==
    translate(scale(translate(m, RNeg(cx), RNeg(cy)), s), cx, cy)

\* math.cos(math.pi * deg / 180) and math.sin(math.pi * deg / 180) for the
\* wheel's angles of 5 and -5 degrees.  cos 5 and sin 5 are irrational; the
\* model turns by the angle whose cosine is 4/5 at each wheel step, an exact
\* rotation (cos^2 + sin^2 = 1) with rational entries.  What is checked of
\* rotations needs the matrix to be a rotation, not the size of its angle.
cos(deg) == Rat(4, 5)
sin(deg) == IF deg < 0 THEN Rat(-3, 5) ELSE Rat(3, 5)

rotate(m, deg) ==
    LET c == cos(deg)
        sn == sin(deg)
        mat == << << c, RNeg(sn), Zero >>, << sn, c, Zero >>,
                  << Zero, Zero, One >> >>
    IN  MatMul(mat, m)

rotate_at(m, deg, cx, cy) ==
    translate(rotate(translate(m, RNeg(cx), RNeg(cy)), deg), cx, cy)

\* the body of zoom_fit after its guard, composed onto the matrix 'start'
\* and choosing the axis to fit by the flag 'wide'
fit_onto(start, wide, image_width, image_height, canvas_width, canvas_height) ==
    LET s == IF wide THEN Rat(canvas_height, image_height)
             ELSE Rat(canvas_width, image_width)
        offsetx == IF wide
                   THEN RDiv(RSub(RInt(canvas_width),
                                  RMul(RInt(image_width), s)), RInt(2))
                   ELSE Zero
        offsety == IF wide THEN Zero
                   ELSE RDiv(RSub(RInt(canvas_height),
                                  RMul(RInt(image_height), s)), RInt(2))
    IN  translate(scale(start, s), offsetx, offsety)

\* zoom_fit with the comparison of line 401 reversed
zoom_fit_reversed(m, image_width, image_height, canvas_width, canvas_height) ==
    IF image_width * image_height <= 0 \/ canvas_width * canvas_height <= 0
    THEN m
    ELSE fit_onto(reset_transform,
                  canvas_width * image_height < image_width * canvas_height,
                  image_width, image_height, canvas_width, canvas_height)

\* zoom_fit without the reset_transform of line 395
zoom_fit_no_reset(m, image_width, image_height, canvas_width, canvas_height) ==
    IF image_width * image_height <= 0 \/ canvas_width * canvas_height <= 0
    THEN m
    ELSE fit_onto(m, canvas_width * image_height > image_width * canvas_height,
                  image_width, image_height, canvas_width, canvas_height)

\* zoom_fit whose guard tests the image and not the canvas
zoom_fit_image_test_only(m, image_width, image_height, canvas_width, canvas_height) ==
    IF image_width * image_height <= 0
    THEN m
    ELSE fit_onto(reset_transform,
                  canvas_width * image_height > image_width * canvas_height,
                  image_width, image_height, canvas_width, canvas_height)

\* zoom_fit with the reset_transform of line 395 moved above the guard
zoom_fit_reset_first(m, image_width, image_height, canvas_width, canvas_height) ==
    IF image_width * image_height <= 0 \/ canvas_width * canvas_height <= 0
    THEN reset_transform
    ELSE fit_onto(reset_transform,
                  canvas_width * image_height > image_width * canvas_height,
                  image_width, image_height, canvas_width, canvas_height)

zoom_fit(m, image_width, image_height, canvas_width, canvas_height) ==
    IF image_width * image_height <= 0 \/ canvas_width * canvas_height <= 0
    THEN m
    ELSE LET wide == canvas_width * image_height > image_width * canvas_height
             s == IF wide THEN Rat(canvas_height, image_height)
                  ELSE Rat(canvas_width, image_width)
             offsetx == IF wide
                        THEN RDiv(RSub(RInt(canvas_width),
                                       RMul(RInt(image_width), s)), RInt(2))
                        ELSE Zero
             offsety == IF wide THEN Zero
                        ELSE RDiv(RSub(RInt(canvas_height),
                                       RMul(RInt(image_height), s)), RInt(2))
         IN  translate(scale(reset_transform, s), offsetx, offsety)

NoPoint == << >>

\* to_image_point with >= in place of > in lines 426-427
to_image_point_open_edge(img, m, x, y) ==
    IF img = None THEN NoPoint
    ELSE LET image_point == MatVec(MatInv(m), << RInt(x), RInt(y), One >>)
         IN  IF \/ RLt(image_point[1], Zero)
                \/ RLt(image_point[2], Zero)
                \/ RLe(RInt(img.width), image_point[1])
                \/ RLe(RInt(img.height), image_point[2])
             THEN NoPoint
             ELSE image_point

to_image_point(img, m, x, y) ==
    IF img = None THEN NoPoint
    ELSE LET mat_inv == MatInv(m)
         IN  IF mat_inv = LinAlgError THEN LinAlgError
             ELSE LET image_point == MatVec(mat_inv, << RInt(x), RInt(y), One >>)
                  IN  IF \/ RLt(image_point[1], Zero)
                         \/ RLt(image_point[2], Zero)
                         \/ RGt(image_point[1], RInt(img.width))
                         \/ RGt(image_point[2], RInt(img.height))
                      THEN NoPoint
                      ELSE image_point

(***************************************************************************)
(* The state after Application.__init__.                                   *)
(***************************************************************************)
Init ==
    /\ pil_image = None
    /\ filename = None
    /\ mat_affine = reset_transform
    /\ canvas = [width |-> 4, height |-> 2]
    /\ points_list = << >>
    /\ dpi = None
    /\ map_scale = None
    /\ mpi = None
    /\ old_event = None
    /\ drag_flag = FALSE
    /\ button1 = FALSE
    /\ label_image_pixel = "(x, y)"
    /\ disk = None
    /\ ngestures = 0

\* the user resizes the window: the canvas is packed to fill it
CanvasResize(size) ==
    /\ size # canvas
    /\ canvas' = size
    /\ UNCHANGED << pil_image, filename, mat_affine, points_list, dpi,
                    map_scale, mpi, old_event, drag_flag, button1,
                    label_image_pixel, disk, ngestures >>

(***************************************************************************)
(* Menu commands.                                                          *)
(***************************************************************************)
\* set_image, for the file that self.filename names
set_image(file) ==
    /\ pil_image' = file.image
    /\ mat_affine' = zoom_fit(mat_affine, file.image.width, file.image.height,
                              canvas.width, canvas.height)

\* menu_open_clicked that starts a new, empty points list for a new image
menu_open_clicked_clears_points(chosen) ==
    /\ filename' = chosen
    /\ IF chosen = EmptyPath
       THEN UNCHANGED << pil_image, mat_affine, points_list >>
       ELSE /\ \E file \in Files : file.path = chosen /\ set_image(file)
            /\ points_list' = << >>
    /\ UNCHANGED << canvas, dpi, map_scale, mpi, old_event, drag_flag, button1,
                    label_image_pixel, disk, ngestures >>

\* File > Open; chosen is the path picked in the dialog, EmptyPath when the
\* dialog is dismissed
menu_open_clicked(chosen) ==
    /\ filename' = chosen
    /\ IF chosen = EmptyPath
       THEN UNCHANGED << pil_image, mat_affine >>
       ELSE \E file \in Files : file.path = chosen /\ set_image(file)
    /\ UNCHANGED << canvas, points_list, dpi, map_scale, mpi, old_event,
                    drag_flag, button1, label_image_pixel, disk, ngestures >>

\* File > Set Scale; dpi_answer and scale_answer are what the two prompts
\* return when they are shown
menu_set_scale_clicked(dpi_answer, scale_answer) ==
    /\ UNCHANGED << pil_image, filename, mat_affine, canvas, points_list,
                    old_event, drag_flag, button1, label_image_pixel, disk,
                    ngestures >>
    /\ IF pil_image = None \/ pil_image.info_dpi = NoDpi
       THEN \* warning and return, or KeyError on info['dpi']
            UNCHANGED << dpi, map_scale, mpi >>
       ELSE IF pil_image.info_dpi = << 0, 0 >> /\ dpi_answer = None
       THEN \* line 71: the DPI prompt was cancelled
            /\ dpi' = None
            /\ UNCHANGED << map_scale, mpi >>
       ELSE /\ dpi' = IF pil_image.info_dpi = << 0, 0 >> THEN dpi_answer
                      ELSE Num(RInt(pil_image.info_dpi[1]))
            /\ map_scale' = scale_answer
            /\ IF scale_answer # None /\ float(scale_answer.s) # ValueError
               THEN mpi' = Num(RMul(float(scale_answer.s), ChainsFactor))
               ELSE \* prompt cancelled, or float() raised ValueError
                    UNCHANGED mpi

\* self.filename.split('.')[0] + '.georef'
export_filename == Path(<< Head(filename.parts), "georef" >>)

\* the text written by lines 100-104, as its newline-terminated lines
export_lines ==
    << "dpi, mpi, scale", << dpi, mpi, map_scale >>, "Px, Py, Name" >>
    \o (IF points_list = << >> THEN << "" >> ELSE points_list)

\* menu_export_clicked with the test of mpi left out of line 87
menu_export_clicked_no_mpi_test(response) ==
    /\ UNCHANGED << pil_image, filename, mat_affine, canvas, points_list, dpi,
                    map_scale, mpi, old_event, drag_flag, button1,
                    label_image_pixel, ngestures >>
    /\ IF dpi = None \/ map_scale = None \/ filename = None \/ response # "yes"
       THEN UNCHANGED disk
       ELSE disk' = [name |-> export_filename, lines |-> export_lines]

\* File > Export Points; response is the answer to "Export points file as"
menu_export_clicked(response) ==
    /\ UNCHANGED << pil_image, filename, mat_affine, canvas, points_list, dpi,
                    map_scale, mpi, old_event, drag_flag, button1,
                    label_image_pixel, ngestures >>
    /\ IF dpi = None \/ map_scale = None \/ mpi = None
       THEN UNCHANGED disk
       ELSE IF filename = None
       THEN UNCHANGED disk  \* AttributeError on None.split
       ELSE IF response = "yes"
       THEN disk' = [name |-> export_filename, lines |-> export_lines]
       ELSE UNCHANGED disk

(***************************************************************************)
(* Mouse events.                                                           *)
(***************************************************************************)
mouse_down_left(p) ==
    /\ ~button1
    /\ button1' = TRUE
    /\ old_event' = Event(p)
    /\ UNCHANGED << pil_image, filename, mat_affine, canvas, points_list, dpi,
                    map_scale, mpi, drag_flag, label_image_pixel, disk,
                    ngestures >>

mouse_release_left(p) ==
    /\ button1
    /\ button1' = FALSE
    /\ drag_flag' = FALSE
    /\ old_event' = IF drag_flag THEN old_event ELSE Event(p)
    /\ UNCHANGED << pil_image, filename, mat_affine, canvas, points_list, dpi,
                    map_scale, mpi, label_image_pixel, disk, ngestures >>

\* the text appended by lines 248-249
point_line(image_point, point_name) ==
    Fmt0(image_point[1]) \o ", " \o Fmt0(image_point[2]) \o ", " \o point_name.s

\* mouse_release_right without the test of line 247: a cancelled prompt
\* stores the text "None" as the name
mouse_release_right_no_cancel_test(p, point_name) ==
    LET image_point == to_image_point(pil_image, mat_affine, p[1], p[2])
        name == IF point_name = None THEN Str("None") ELSE point_name
    IN  /\ UNCHANGED << pil_image, filename, mat_affine, canvas, dpi,
                        map_scale, mpi, drag_flag, button1, label_image_pixel,
                        disk, ngestures >>
        /\ IF image_point = NoPoint \/ image_point = LinAlgError
           THEN UNCHANGED << points_list, old_event >>
           ELSE /\ Len(points_list) < MaxPoints
                /\ points_list' = Append(points_list, point_line(image_point, name))
                /\ old_event' = Event(p)

\* right button release at p; point_name is what the name prompt returns
mouse_release_right(p, point_name) ==
    LET image_point == to_image_point(pil_image, mat_affine, p[1], p[2])
    IN  /\ UNCHANGED << pil_image, filename, mat_affine, canvas, dpi,
                        map_scale, mpi, drag_flag, button1, label_image_pixel,
                        disk, ngestures >>
        /\ IF image_point = NoPoint \/ image_point = LinAlgError
           THEN \* line 245 reads the unbound local 'title' (or inv raised):
                \* the handler ends there
                UNCHANGED << points_list, old_event >>
           ELSE /\ point_name # None => Len(points_list) < MaxPoints
                /\ points_list' =
                       IF point_name # None
                       THEN Append(points_list, point_line(image_point, point_name))
                       ELSE points_list
                /\ old_event' = Event(p)

\* left button drag to p
mouse_move_left(p) ==
    /\ button1
    /\ IF pil_image = None
       THEN UNCHANGED << drag_flag, mat_affine, old_event, ngestures >>
       ELSE /\ ngestures < MaxGestures
            /\ ngestures' = ngestures + 1
            /\ drag_flag' = TRUE
            /\ mat_affine' = translate(mat_affine, RInt(p[1] - old_event.x),
                                       RInt(p[2] - old_event.y))
            /\ old_event' = Event(p)
    /\ UNCHANGED << pil_image, filename, canvas, points_list, dpi, map_scale,
                    mpi, button1, label_image_pixel, disk >>

\* pointer motion to p with no button held
mouse_move(p) ==
    /\ ~button1
    /\ IF pil_image = None
       THEN UNCHANGED label_image_pixel
       ELSE LET image_point == to_image_point(pil_image, mat_affine, p[1], p[2])
            IN  label_image_pixel' =
                    IF image_point = LinAlgError THEN label_image_pixel
                    ELSE IF image_point # NoPoint
                    THEN "(" \o Fmt2(image_point[1]) \o ", "
                         \o Fmt2(image_point[2]) \o ")"
                    ELSE "(--, --)"
    /\ UNCHANGED << pil_image, filename, mat_affine, canvas, points_list, dpi,
                    map_scale, mpi, old_event, drag_flag, button1, disk,
                    ngestures >>

\* the second press of a double click
mouse_double_click_left ==
    /\ ~button1
    /\ old_event # None
    /\ button1' = TRUE
    /\ mat_affine' = IF pil_image = None THEN mat_affine
                     ELSE zoom_fit(mat_affine, pil_image.width, pil_image.height,
                                   canvas.width, canvas.height)
    /\ UNCHANGED << pil_image, filename, canvas, points_list, dpi, map_scale,
                    mpi, old_event, drag_flag, label_image_pixel, disk,
                    ngestures >>

\* the zoom factors of mouse_wheel and mouse_wheel_linux
ZoomIn == Rat(125, 100)
ZoomOut == Rat(8, 10)

\* a wheel event at p without the Shift key, scaling by factor
wheel_zoom(p, factor) ==
    /\ IF pil_image = None
       THEN UNCHANGED << mat_affine, ngestures >>
       ELSE /\ ngestures < MaxGestures
            /\ ngestures' = ngestures + 1
            /\ mat_affine' = scale_at(mat_affine, factor, RInt(p[1]), RInt(p[2]))
    /\ UNCHANGED << pil_image, filename, canvas, points_list, dpi, map_scale,
                    mpi, old_event, drag_flag, button1, label_image_pixel, disk >>

\* <MouseWheel> (Windows): delta < 0 zooms in, otherwise out
mouse_wheel(p, delta) ==
    wheel_zoom(p, IF delta < 0 THEN ZoomIn ELSE ZoomOut)

\* <Button-4>/<Button-5> (X11): button 5 zooms out, button 4 in
mouse_wheel_linux(p, num) ==
    wheel_zoom(p, IF num = 5 THEN ZoomOut ELSE ZoomIn)

\* wheel_rotate without the test for a loaded image
wheel_rotate_no_image_test(p, deg) ==
    /\ ngestures < MaxGestures
    /\ ngestures' = ngestures + 1
    /\ mat_affine' = rotate_at(mat_affine, deg, RInt(p[1]), RInt(p[2]))
    /\ UNCHANGED << pil_image, filename, canvas, points_list, dpi, map_scale,
                    mpi, old_event, drag_flag, button1, label_image_pixel, disk >>

\* a wheel event at p with the Shift key held, rotating by deg
wheel_rotate(p, deg) ==
    /\ IF pil_image = None
       THEN UNCHANGED << mat_affine, ngestures >>
       ELSE /\ ngestures < MaxGestures
            /\ ngestures' = ngestures + 1
            /\ mat_affine' = rotate_at(mat_affine, deg, RInt(p[1]), RInt(p[2]))
    /\ UNCHANGED << pil_image, filename, canvas, points_list, dpi, map_scale,
                    mpi, old_event, drag_flag, button1, label_image_pixel, disk >>

\* <MouseWheel> with event.state = 9
mouse_wheel_shift(p, delta) ==
    wheel_rotate(p, IF delta < 0 THEN -5 ELSE 5)

\* <Button-4>/<Button-5> with event.state = 17
mouse_wheel_linux_shift(p, num) ==
    wheel_rotate(p, IF num = 5 THEN -5 ELSE 5)

(***************************************************************************)
(* Specifications.  Next is every handler with every input.  The other     *)
(* specifications are runs of the same program in which the user issues    *)
(* only some of the commands:                                              *)
(*   SpecCal    the menu commands and point capture;                       *)
(*   SpecView   the view gestures, with the wheel bound as on Windows;     *)
(*   SpecMove   window resizing, pointer readout and the wheel bound as    *)
(*              on X11;                                                    *)
(*   SpecPoint  point capture and the wheel bound as on X11;               *)
(*   SpecRot    the view gestures with rotation, on a window that can be    *)
(*              resized to no area, the wheel bound as on Windows;         *)
(*   SpecEvents every handler, each with one or two inputs, the wheel      *)
(*              bound as on X11.                                           *)
(***************************************************************************)
Paths == { f.path : f \in Files } \cup { EmptyPath }

Next ==
    \/ \E size \in CanvasSizes : CanvasResize(size)
    \/ \E chosen \in Paths : menu_open_clicked(chosen)
    \/ \E a \in Answers, b \in Answers : menu_set_scale_clicked(a, b)
    \/ \E response \in { "yes", "no" } : menu_export_clicked(response)
    \/ \E p \in Pointer : mouse_down_left(p)
    \/ \E p \in Pointer : mouse_release_left(p)
    \/ \E p \in Pointer, n \in Names : mouse_release_right(p, n)
    \/ \E p \in Pointer : mouse_move_left(p)
    \/ \E p \in Pointer : mouse_move(p)
    \/ mouse_double_click_left
    \/ \E p \in Pointer, delta \in { -120, 120 } : mouse_wheel(p, delta)
    \/ \E p \in Pointer, num \in { 4, 5 } : mouse_wheel_linux(p, num)
    \/ \E p \in Pointer, delta \in { -120, 120 } : mouse_wheel_shift(p, delta)
    \/ \E p \in Pointer, num \in { 4, 5 } : mouse_wheel_linux_shift(p, num)

Spec == Init /\ [][Next]_vars

\* the pointer positions of the gestures in the smaller specifications
ViewPointer == { << 0, 0 >>, << 3, 1 >> }
WheelPointer == { << 2, 1 >> }
MovePointer == { << 4, 2 >>, << -1, 3 >> }
PointPointer == { << 2, 1 >>, << -1, 3 >> }
CalPointer == { << 0, 0 >> }
OutPointer == { << -1, 3 >> }

NextCal ==
    \/ \E chosen \in Paths : menu_open_clicked(chosen)
    \/ \E a \in Answers, b \in Answers : menu_set_scale_clicked(a, b)
    \/ \E response \in { "yes", "no" } : menu_export_clicked(response)
    \/ \E p \in CalPointer : mouse_release_right(p, Str("A"))

SpecCal == Init /\ [][NextCal]_vars

NextView ==
    \/ \E chosen \in Paths : menu_open_clicked(chosen)
    \/ \E p \in ViewPointer : mouse_down_left(p)
    \/ \E p \in ViewPointer : mouse_release_left(p)
    \/ \E p \in ViewPointer : mouse_move_left(p)
    \/ mouse_double_click_left
    \/ \E p \in ViewPointer, delta \in { -120, 120 } : mouse_wheel(p, delta)

SpecView == Init /\ [][NextView]_vars

NextMove ==
    \/ \E size \in CanvasSizes : CanvasResize(size)
    \/ \E chosen \in Paths : menu_open_clicked(chosen)
    \/ \E p \in MovePointer : mouse_move(p)
    \/ \E p \in WheelPointer, num \in { 4, 5 } : mouse_wheel_linux(p, num)

SpecMove == Init /\ [][NextMove]_vars

NextPoint ==
    \/ \E chosen \in Paths : menu_open_clicked(chosen)
    \/ \E p \in PointPointer, n \in { None, Str("") } : mouse_release_right(p, n)
    \/ \E p \in WheelPointer, num \in { 4, 5 } : mouse_wheel_linux(p, num)

SpecPoint == Init /\ [][NextPoint]_vars

RotCanvas == { [width |-> 4, height |-> 2], [width |-> 0, height |-> 2] }

NextRot ==
    \/ \E size \in RotCanvas : CanvasResize(size)
    \/ \E chosen \in Paths : menu_open_clicked(chosen)
    \/ \E p \in CalPointer : mouse_down_left(p)
    \/ \E p \in WheelPointer : mouse_release_left(p)
    \/ \E p \in WheelPointer : mouse_move_left(p)
    \/ \E p \in OutPointer : mouse_move(p)
    \/ mouse_double_click_left
    \/ \E p \in WheelPointer : mouse_wheel(p, -120)
    \/ \E p \in WheelPointer, delta \in { -120, 120 } : mouse_wheel_shift(p, delta)

SpecRot == Init /\ [][NextRot]_vars

EventPaths == { Path(<< "a", "png" >>), Path(<< "b", "tif" >>) }
NextEvents ==
    \/ \E chosen \in EventPaths : menu_open_clicked(chosen)
    \/ menu_set_scale_clicked(Str("5"), Str("5"))
    \/ menu_export_clicked("yes")
    \/ \E p \in WheelPointer : mouse_down_left(p)
    \/ \E p \in WheelPointer : mouse_release_left(p)
    \/ \E p \in CalPointer, n \in { None, Str("A") } : mouse_release_right(p, n)
    \/ \E p \in WheelPointer : mouse_move_left(p)
    \/ \E p \in OutPointer : mouse_move(p)
    \/ mouse_double_click_left
    \/ \E p \in WheelPointer : mouse_wheel_linux(p, 5)

SpecEvents == Init /\ [][NextEvents]_vars

(***************************************************************************)
(* Properties of the menu commands, checked under SpecCal.                 *)
(***************************************************************************)
CalibrationComplete == dpi # None /\ map_scale # None /\ mpi # None

\* C1: Export Points writes a file only when dpi, map_scale and mpi are all
\* set; when one of them is unset the command changes nothing: no file is
\* written and the points, the calibration and the transform stay as they are.
C1_ExportNeedsCalibration ==
    [][ /\ disk' # disk => CalibrationComplete
        /\ \A response \in { "yes", "no" } :
               menu_export_clicked(response) /\ ~CalibrationComplete
                   => UNCHANGED << disk, points_list, dpi, map_scale, mpi,
                                   mat_affine >> ]_vars

\* a file was exported earlier, points are stored, and the calibration is
\* incomplete again, so that a further export is refused
C1_Witness ==
    /\ disk # None
    /\ points_list # << >>
    /\ dpi # None /\ mpi # None /\ map_scale = None

\* whether a prompt answer is a text that float() rejects
NonNumeric(answer) == answer # None /\ float(answer.s) = ValueError

\* C2: a Set Scale command in which the text entered for the DPI or for the
\* map scale is not a number leaves dpi, map_scale and mpi as they were.
C2_NonNumericCommitsNothing ==
    [][ \A a \in Answers, b \in Answers :
            ( /\ menu_set_scale_clicked(a, b)
              /\ pil_image # None
              /\ pil_image.info_dpi # NoDpi
              /\ \/ pil_image.info_dpi = << 0, 0 >> /\ NonNumeric(a)
                 \/ ~(pil_image.info_dpi = << 0, 0 >> /\ a = None) /\ NonNumeric(b) )
            => UNCHANGED << dpi, map_scale, mpi >> ]_vars

\* C3: whenever the calibration is complete, mpi is the numeric value of
\* map_scale times 20.1168.
C3_MpiMatchesMapScale ==
    CalibrationComplete =>
        /\ float(map_scale.s) # ValueError
        /\ mpi = Num(RMul(float(map_scale.s), Rat(201168, 10000)))

\* C9: File > Open that ends with no file selected changes nothing: image,
\* stored filename, transform, points and calibration stay as they are.
C9_OpenCancelledIsNoOp ==
    [][ menu_open_clicked(EmptyPath)
            => UNCHANGED << pil_image, filename, mat_affine, points_list, dpi,
                            map_scale, mpi >> ]_vars

\* the lines of the export format for the current calibration and points
FormatLines ==
    << "dpi, mpi, scale", << dpi, mpi, map_scale >>, "Px, Py, Name" >>
    \o points_list

\* C11: an export that is permitted and confirmed writes exactly 3 + n lines
\* for the n stored points, n >= 0: the header, the calibration values, the
\* column header, then one line per point in insertion order.
C11_ExportWritesHeaderAndPoints ==
    [][ ( /\ menu_export_clicked("yes")
          /\ CalibrationComplete
          /\ filename # None ) =>
            /\ disk' # None
            /\ Len(disk'.lines) = 3 + Len(points_list)
            /\ disk'.lines = FormatLines ]_vars

(***************************************************************************)
(* Properties of the viewport and of the coordinate mapping.               *)
(***************************************************************************)
\* the image of the image point (x, y) under m
Forward(m, x, y) == MatVec(m, << x, y, One >>)

\* the point that the inverse of m maps the device point p to
Preimage(m, p) == MatVec(MatInv(m), << RInt(p[1]), RInt(p[2]), One >>)

\* whether q lies in the closed rectangle [0, width] x [0, height] of img
InImage(img, q) ==
    /\ RLe(Zero, q[1]) /\ RLe(q[1], RInt(img.width))
    /\ RLe(Zero, q[2]) /\ RLe(q[2], RInt(img.height))

PositiveArea(img, c) ==
    img.width > 0 /\ img.height > 0 /\ c.width > 0 /\ c.height > 0

\* m maps an iw x ih image into a cw x ch canvas, keeps the aspect ratio,
\* puts one pair of opposite image edges on the canvas boundary and centres
\* the image on the other axis
FitsWindow(m, iw, ih, cw, ch) ==
    LET o == Forward(m, Zero, Zero)
        e == Forward(m, RInt(iw), RInt(ih))
    IN  /\ \A x \in { 0, iw }, y \in { 0, ih } :
               LET c == Forward(m, RInt(x), RInt(y))
               IN  /\ RLe(Zero, c[1]) /\ RLe(c[1], RInt(cw))
                   /\ RLe(Zero, c[2]) /\ RLe(c[2], RInt(ch))
        /\ \/ o[1] = Zero /\ e[1] = RInt(cw)
           \/ o[2] = Zero /\ e[2] = RInt(ch)
        /\ m[1][1] = m[2][2] /\ m[1][2] = Zero /\ m[2][1] = Zero
        /\ o[1] = RSub(RInt(cw), e[1])
        /\ o[2] = RSub(RInt(ch), e[2])

ScaleFactors == { ZoomIn, ZoomOut, RInt(2) }

Probes == Pointer \cup { << 5, 1 >>, << -1, 1 >>, << 2, 3 >>, << 2, -1 >> }

\* C6: with an image loaded, to_image_point answers 'no point' exactly when
\* the device point, mapped through the inverse of the matrix, lies outside
\* the closed rectangle [0, width] x [0, height], and the unrounded mapped
\* point otherwise.
C6_ToImagePointBounds ==
    pil_image # None =>
        LET inv == MatInv(mat_affine)
        IN  /\ MatMul(inv, mat_affine) = Eye3
            /\ \A p \in Probes :
                   LET q == MatVec(inv, << RInt(p[1]), RInt(p[2]), One >>)
                   IN  to_image_point(pil_image, mat_affine, p[1], p[2]) =
                           IF InImage(pil_image, q) THEN q ELSE NoPoint

\* the 4x2 image at scale 1: both corners are accepted, the four points just
\* outside an edge are rejected, and the readout showed the far corner
C6_Witness ==
    /\ pil_image # None /\ pil_image.width = 4 /\ pil_image.height = 2
    /\ to_image_point(pil_image, mat_affine, 0, 0) = << Zero, Zero, One >>
    /\ to_image_point(pil_image, mat_affine, 4, 2) = << RInt(4), RInt(2), One >>
    /\ \A p \in { << 5, 1 >>, << -1, 1 >>, << 2, 3 >>, << 2, -1 >> } :
           to_image_point(pil_image, mat_affine, p[1], p[2]) = NoPoint
    /\ label_image_pixel = "(4.00, 2.00)"

\* the fit-to-window transform of an iw x ih image on a cw x ch canvas
FitTransform(iw, ih, cw, ch) ==
    LET sx == Rat(cw, iw)
        sy == Rat(ch, ih)
        s == IF RLt(sx, sy) THEN sx ELSE sy
    IN  << << s, Zero, RDiv(RSub(RInt(cw), RMul(RInt(iw), s)), RInt(2)) >>,
           << Zero, s, RDiv(RSub(RInt(ch), RMul(RInt(ih), s)), RInt(2)) >>,
           << Zero, Zero, One >> >>

\* a step that loads an image, or a double click with an image loaded
LoadsOrResets ==
    \/ \E chosen \in Paths \ { EmptyPath } : menu_open_clicked(chosen)
    \/ mouse_double_click_left /\ pil_image # None

\* C7 as claimed: after an image is loaded, and after a double click with an
\* image loaded, the matrix is the identity or the fit-to-window transform
\* for the image and the canvas.
C7_ResetsToIdentityOrFit ==
    [][ LoadsOrResets =>
            \/ mat_affine' = Eye3
            \/ /\ PositiveArea(pil_image', canvas')
               /\ mat_affine' = FitTransform(pil_image'.width, pil_image'.height,
                                             canvas'.width, canvas'.height) ]_vars

\* C7 as amended: after an image is loaded, and after a double click with an
\* image loaded, the matrix is the fit-to-window transform when image and
\* canvas both have positive area, and is the matrix of before otherwise.
C7_ResetsToFitUnlessDegenerate ==
    [][ LoadsOrResets =>
            mat_affine' =
                IF PositiveArea(pil_image', canvas')
                THEN FitTransform(pil_image'.width, pil_image'.height,
                                  canvas'.width, canvas'.height)
                ELSE mat_affine ]_vars

\* the 2x4 image was loaded after a wheel zoom of another view (no button
\* was ever pressed, so the one gesture was a zoom) and is fitted
C7_Witness ==
    /\ pil_image # None /\ pil_image.width = 2
    /\ ngestures = 1
    /\ old_event = None
    /\ mat_affine = FitTransform(2, 4, 4, 2)

\* C8: with an image or a canvas of no area, zoom_fit leaves the matrix as it
\* was.
C8_ZoomFitDegenerateNoOp ==
    \A f \in Files, c \in CanvasSizes :
        (f.image.width * f.image.height <= 0 \/ c.width * c.height <= 0) =>
            zoom_fit(mat_affine, f.image.width, f.image.height,
                     c.width, c.height) = mat_affine

\* the image without area was loaded over the fit of another image: no
\* gesture was made, and the matrix is not the identity
C8_Witness ==
    /\ pil_image # None /\ pil_image.width = 0
    /\ ngestures = 0
    /\ mat_affine # Eye3

\* C10: points_list changes only by a right button release that
\* to_image_point resolved: an image is loaded, the release position maps
\* into [0, width] x [0, height], and the new entry is that point with the
\* name given; a release with no image, outside the image, or with the name
\* prompt cancelled appends nothing, and an empty name appends.
C10_PointsComeFromResolvedClicks ==
    [][ /\ points_list' # points_list =>
               /\ pil_image # None
               /\ old_event' # None
               /\ LET p == << old_event'.x, old_event'.y >>
                      q == Preimage(mat_affine, p)
                  IN  /\ InImage(pil_image, q)
                      /\ \E n \in Names \ { None } :
                             points_list' =
                                 Append(points_list,
                                        Fmt0(q[1]) \o ", " \o Fmt0(q[2])
                                            \o ", " \o n.s)
        /\ \A p \in Pointer :
               /\ ( /\ points_list' # points_list
                    /\ old_event' = Event(p)
                    /\ mouse_release_right(p, None) ) => FALSE
               /\ ( /\ Len(points_list') # Len(points_list) + 1
                    /\ old_event' = Event(p)
                    /\ pil_image # None
                    /\ mouse_release_right(p, Str("")) )
                      => ~InImage(pil_image, Preimage(mat_affine, p)) ]_vars

\* a point with an empty name was captured on the fitted 2x4 image: the
\* release at device (2, 1) resolved to the image point (1, 2)
C10_Witness ==
    /\ pil_image # None /\ pil_image.width = 2
    /\ points_list = << "1, 2, " >>
    /\ old_event = Event(<< 2, 1 >>)

(***************************************************************************)
(* Properties of the points list and of the transform over all events.     *)
(***************************************************************************)
IsPrefix(s, t) == Len(s) <= Len(t) /\ SubSeq(t, 1, Len(s)) = s

\* C13: points_list is append-only: every step leaves the entries it had in
\* place, so the list before is a prefix of the list after, and a right
\* button release that resolves and is given a name adds exactly one entry,
\* at the end.
C13_PointsAppendOnly ==
    [][ /\ IsPrefix(points_list, points_list')
        /\ Len(points_list') <= Len(points_list) + 1
        /\ \A p \in Pointer :
               ( /\ old_event' = Event(p)
                 /\ pil_image # None
                 /\ UNCHANGED << mat_affine, disk, button1, drag_flag, dpi,
                                 filename, label_image_pixel >>
                 /\ InImage(pil_image, Preimage(mat_affine, p))
                 /\ \E n \in Names \ { None } : mouse_release_right(p, n) )
                   => /\ Len(points_list') = Len(points_list) + 1
                      /\ SubSeq(points_list', 1, Len(points_list)) = points_list ]_vars

\* two points are stored, the second appended behind the first, a file was
\* exported, the other image was opened and the view zoomed
C13_Witness ==
    /\ Len(points_list) = 2
    /\ disk # None
    /\ pil_image # None /\ pil_image.width = 2
    /\ ngestures > 0

C16_IdentityUntilLoaded ==
    pil_image = None => mat_affine = Eye3

\* no image is loaded, the Open dialog was dismissed, the window has no area,
\* and a button press was recorded
C16_Witness ==
    /\ pil_image = None
    /\ filename = EmptyPath
    /\ canvas.width = 0
    /\ button1 /\ old_event # None

(***************************************************************************)
(* IEEE 754 binary64 arithmetic, as Python floats and numpy float64 have   *)
(* it.  TLC's integers have 32 bits, so a 53-bit significand is held as a  *)
(* natural number in limbs of 15 bits, least significant limb first, with  *)
(* no leading zero limb.                                                   *)
(***************************************************************************)
Base == 32768

RECURSIVE BTrim(_)
BTrim(a) ==
    IF a = << >> THEN a
    ELSE IF a[Len(a)] = 0 THEN BTrim(SubSeq(a, 1, Len(a) - 1)) ELSE a

RECURSIVE BFromInt(_)
BFromInt(n) == IF n = 0 THEN << >> ELSE << n % Base >> \o BFromInt(n \div Base)

RECURSIVE BAddC(_, _, _)
BAddC(a, b, c) ==
    IF a = << >> /\ b = << >> THEN (IF c = 0 THEN << >> ELSE << c >>)
    ELSE LET x == IF a = << >> THEN 0 ELSE a[1]
             y == IF b = << >> THEN 0 ELSE b[1]
             t == x + y + c
         IN  << t % Base >>
             \o BAddC(IF a = << >> THEN a ELSE Tail(a),
                      IF b = << >> THEN b ELSE Tail(b), t \div Base)

BAdd(a, b) == BAddC(a, b, 0)

\* a - b - c for a >= b + c, before trimming
RECURSIVE BSubB(_, _, _)
BSubB(a, b, c) ==
    IF a = << >> THEN << >>
    ELSE LET y == IF b = << >> THEN 0 ELSE b[1]
             t == a[1] - y - c
         IN  << IF t < 0 THEN t + Base ELSE t >>
             \o BSubB(Tail(a), IF b = << >> THEN b ELSE Tail(b),
                      IF t < 0 THEN 1 ELSE 0)

BSub(a, b) == BTrim(BSubB(a, b, 0))

\* -1, 0 or 1 as a < b, a = b or a > b
RECURSIVE BCmp(_, _)
BCmp(a, b) ==
    IF Len(a) # Len(b) THEN (IF Len(a) < Len(b) THEN -1 ELSE 1)
    ELSE IF a = << >> THEN 0
    ELSE IF a[Len(a)] # b[Len(b)] THEN (IF a[Len(a)] < b[Len(b)] THEN -1 ELSE 1)
    ELSE BCmp(SubSeq(a, 1, Len(a) - 1), SubSeq(b, 1, Len(b) - 1))

\* a * k + c for 0 <= k < Base
RECURSIVE BMulSmall(_, _, _)
BMulSmall(a, k, c) ==
    IF a = << >> THEN (IF c = 0 THEN << >> ELSE << c >>)
    ELSE LET t == a[1] * k + c
         IN  << t % Base >> \o BMulSmall(Tail(a), k, t \div Base)

RECURSIVE BMul(_, _)
BMul(a, b) ==
    IF b = << >> \/ a = << >> THEN << >>
    ELSE LET r == BMul(a, Tail(b))
         IN  BTrim(BAdd(BMulSmall(a, b[1], 0),
                        IF r = << >> THEN r ELSE << 0 >> \o r))

\* quotient (before trimming) and remainder of a by k, 0 < k < Base
RECURSIVE BDivStep(_, _, _)
BDivStep(a, k, r) ==
    IF a = << >> THEN << << >>, r >>
    ELSE LET t == r * Base + a[Len(a)]
             rest == BDivStep(SubSeq(a, 1, Len(a) - 1), k, t % k)
         IN  << Append(rest[1], t \div k), rest[2] >>

BDivSmall(a, k) == BTrim(BDivStep(a, k, 0)[1])
BModSmall(a, k) == BDivStep(a, k, 0)[2]

RECURSIVE Pow2(_)
Pow2(n) == IF n = 0 THEN 1 ELSE 2 * Pow2(n - 1)

RECURSIVE Zeros(_)
Zeros(n) == IF n = 0 THEN << >> ELSE << 0 >> \o Zeros(n - 1)

\* a * 2^n and a \div 2^n
BShl(a, n) ==
    IF a = << >> THEN a
    ELSE Zeros(n \div 15) \o BMulSmall(a, Pow2(n % 15), 0)

BShr(a, n) ==
    IF Len(a) <= n \div 15 THEN << >>
    ELSE BDivSmall(SubSeq(a, n \div 15 + 1, Len(a)), Pow2(n % 15))

RECURSIVE Bits(_)
Bits(x) == IF x = 0 THEN 0 ELSE 1 + Bits(x \div 2)

BBits(a) == IF a = << >> THEN 0 ELSE 15 * (Len(a) - 1) + Bits(a[Len(a)])

\* a float is zero or sign * m * 2^e with 2^52 <= m < 2^53; the exponents of
\* the model stay far inside the range of binary64, and -0.0, which compares
\* equal to 0.0, is not told apart from it
FZero == [neg |-> FALSE, m |-> << >>, e |-> 0]

\* the float nearest to sign * m * 2^e, ties to even
FRound(neg, m, e) ==
    LET len == BBits(m)
    IN  IF len = 0 THEN FZero
        ELSE IF len <= 53
        THEN [neg |-> neg, m |-> BShl(m, 53 - len), e |-> e - (53 - len)]
        ELSE LET k == len - 53
                 q == BShr(m, k)
                 r == BSub(m, BShl(q, k))
                 c == BCmp(r, BShl(<< 1 >>, k - 1))
                 up == c = 1 \/ (c = 0 /\ q[1] % 2 = 1)
                 q1 == IF up THEN BAdd(q, << 1 >>) ELSE q
             IN  IF BBits(q1) = 54
                 THEN [neg |-> neg, m |-> BShr(q1, 1), e |-> e + k + 1]
                 ELSE [neg |-> neg, m |-> q1, e |-> e + k]

\* float(n) for an int n
FInt(n) == FRound(n < 0, BFromInt(IF n < 0 THEN -n ELSE n), 0)

FOne == FInt(1)

\* a / b for ints a and b > 0, correctly rounded (int.__truediv__): 75 bits
\* of the quotient and a sticky bit for the remainder
FDivInt(a, b) ==
    LET n == BShl(BFromInt(IF a < 0 THEN -a ELSE a), 75)
        q == BDivSmall(n, b)
        sticky == IF BModSmall(n, b) = 0 THEN 0 ELSE 1
    IN  FRound(a < 0, BAdd(BShl(q, 1), BFromInt(sticky)), -76)

FNeg(x) == IF x = FZero THEN x ELSE [x EXCEPT !.neg = ~x.neg]

FMul(x, y) ==
    IF x = FZero \/ y = FZero THEN FZero
    ELSE IF x = FOne THEN y
    ELSE IF y = FOne THEN x
    ELSE FRound(x.neg # y.neg, BMul(x.m, y.m), x.e + y.e)

FAdd(x, y) ==
    IF x = FZero THEN y
    ELSE IF y = FZero THEN x
    ELSE LET e == IF x.e < y.e THEN x.e ELSE y.e
             mx == BShl(x.m, x.e - e)
             my == BShl(y.m, y.e - e)
             c == BCmp(mx, my)
             big == IF c = 1 THEN mx ELSE my
             small == IF c = 1 THEN my ELSE mx
         IN  FRound(IF c = 1 THEN x.neg ELSE y.neg,
                    IF x.neg = y.neg THEN BAdd(big, small) ELSE BSub(big, small),
                    e)

FSub(x, y) == FAdd(x, FNeg(y))

\* x / 2
FHalf(x) == IF x = FZero THEN x ELSE [x EXCEPT !.e = x.e - 1]

(***************************************************************************)
(* The view transform as the interpreter computes it, in binary64.  Every  *)
(* np.dot of the program multiplies by a matrix whose rows hold at most    *)
(* two entries other than 0, one of them next to a 0 or a 1 of the other   *)
(* matrix, so that each entry of the product is rounded at most once,      *)
(* whatever the order in which the library adds the three products.        *)
(***************************************************************************)
FEye3 ==
    << << FOne, FZero, FZero >>, << FZero, FOne, FZero >>,
       << FZero, FZero, FOne >> >>

\* the sum of the floats of s, added from the left
RECURSIVE FSum(_)
FSum(s) ==
    IF s = << >> THEN FZero
    ELSE FAdd(FSum(SubSeq(s, 1, Len(s) - 1)), s[Len(s)])

\* the values of f at 1, 2 and 3, each computed once
Tuple3(f) == << f[1], f[2], f[3] >>

FDot3(u, v) == FSum(Tuple3([k \in 1..3 |-> FMul(u[k], v[k])]))

FRow(a, i, b) == Tuple3([j \in 1..3 |-> FDot3(a[i], Col(b, j))])

FMatMul(a, b) == Tuple3([i \in 1..3 |-> FRow(a, i, b)])

\* translate, for offsets already converted by float()
translate64(m, offset_x, offset_y) ==
    LET mat == << << FOne, FZero, offset_x >>, << FZero, FOne, offset_y >>,
                  << FZero, FZero, FOne >> >>
    IN  FMatMul(mat, m)

scale64(m, s) ==
    LET mat == << << s, FZero, FZero >>, << FZero, s, FZero >>,
                  << FZero, FZero, FOne >> >>
    IN  FMatMul(mat, m)

\* scale_at without the translation back to (cx, cy)
scale_at64_no_return(m, s, cx, cy) ==
    scale64(translate64(m, FInt(-cx), FInt(-cy)), s)

\* scale_at for a float factor s and the int coordinates cx, cy of an event
scale_at64(m, s, cx, cy) ==
    translate64(scale64(translate64(m, FInt(-cx), FInt(-cy)), s),
                FInt(cx), FInt(cy))

zoom_fit64(m, image_width, image_height, canvas_width, canvas_height) ==
    IF image_width * image_height <= 0 \/ canvas_width * canvas_height <= 0
    THEN m
    ELSE LET wide == canvas_width * image_height > image_width * canvas_height
             s == IF wide THEN FDivInt(canvas_height, image_height)
                  ELSE FDivInt(canvas_width, image_width)
             offsetx == IF wide
                        THEN FHalf(FSub(FInt(canvas_width),
                                        FMul(FInt(image_width), s)))
                        ELSE FZero
             offsety == IF wide THEN FZero
                        ELSE FHalf(FSub(FInt(canvas_height),
                                        FMul(FInt(image_height), s)))
         IN  translate64(scale64(FEye3, s), offsetx, offsety)

\* the float literals 1.25 and 0.8
ZoomIn64 == FDivInt(5, 4)
ZoomOut64 == FDivInt(4, 5)

\* the state after Application.__init__, with the matrix in binary64
Init64 ==
    /\ pil_image = None
    /\ filename = None
    /\ mat_affine = FEye3
    /\ canvas = [width |-> 4, height |-> 2]
    /\ points_list = << >>
    /\ dpi = None
    /\ map_scale = None
    /\ mpi = None
    /\ old_event = None
    /\ drag_flag = FALSE
    /\ button1 = FALSE
    /\ label_image_pixel = "(x, y)"
    /\ disk = None
    /\ ngestures = 0

set_image64(file) ==
    /\ pil_image' = file.image
    /\ mat_affine' = zoom_fit64(mat_affine, file.image.width, file.image.height,
                                canvas.width, canvas.height)

menu_open_clicked64(chosen) ==
    /\ filename' = chosen
    /\ IF chosen = EmptyPath
       THEN UNCHANGED << pil_image, mat_affine >>
       ELSE \E file \in Files : file.path = chosen /\ set_image64(file)
    /\ UNCHANGED << canvas, points_list, dpi, map_scale, mpi, old_event,
                    drag_flag, button1, label_image_pixel, disk, ngestures >>

\* lines 258-261 of mouse_move_left without the assignment of line 261
drag_step_keeps_old(m, old, p) ==
    [mat |-> translate64(m, FInt(p[1] - old.x), FInt(p[2] - old.y)),
     old |-> old]

\* lines 258-261 of mouse_move_left: the matrix and the recorded event after
\* a drag event at p
drag_step(m, old, p) ==
    [mat |-> translate64(m, FInt(p[1] - old.x), FInt(p[2] - old.y)),
     old |-> Event(p)]

mouse_move_left64(p) ==
    /\ button1
    /\ IF pil_image = None
       THEN UNCHANGED << drag_flag, mat_affine, old_event, ngestures >>
       ELSE /\ ngestures < MaxGestures
            /\ ngestures' = ngestures + 1
            /\ drag_flag' = TRUE
            /\ mat_affine' = drag_step(mat_affine, old_event, p).mat
            /\ old_event' = drag_step(mat_affine, old_event, p).old
    /\ UNCHANGED << pil_image, filename, canvas, points_list, dpi, map_scale,
                    mpi, button1, label_image_pixel, disk >>

wheel_zoom64(p, factor) ==
    /\ IF pil_image = None
       THEN UNCHANGED << mat_affine, ngestures >>
       ELSE /\ ngestures < MaxGestures
            /\ ngestures' = ngestures + 1
            /\ mat_affine' = scale_at64(mat_affine, factor, p[1], p[2])
    /\ UNCHANGED << pil_image, filename, canvas, points_list, dpi, map_scale,
                    mpi, old_event, drag_flag, button1, label_image_pixel, disk >>

mouse_wheel64(p, delta) ==
    wheel_zoom64(p, IF delta < 0 THEN ZoomIn64 ELSE ZoomOut64)

\* SpecFloat: loading, dragging and zooming with the matrix in binary64
NextFloat ==
    \/ \E chosen \in EventPaths : menu_open_clicked64(chosen)
    \/ \E p \in ViewPointer : mouse_down_left(p)
    \/ \E p \in ViewPointer : mouse_release_left(p)
    \/ \E p \in ViewPointer : mouse_move_left64(p)
    \/ \E p \in ViewPointer, delta \in { -120, 120 } : mouse_wheel64(p, delta)

SpecFloat == Init64 /\ [][NextFloat]_vars

(***************************************************************************)
(* Properties of zooming and dragging in binary64, checked under           *)
(* SpecFloat.                                                              *)
(***************************************************************************)
FAbs(x) == [x EXCEPT !.neg = FALSE]

\* x <= y
FLe(x, y) == ~FSub(y, x).neg

\* 2^-48
Tolerance == [neg |-> FALSE, m |-> BShl(<< 1 >>, 52), e |-> -100]

\* |x - y| <= 2^-48 * (|y| + n + 1)
FClose(x, y, n) ==
    FLe(FAbs(FSub(x, y)), FMul(Tolerance, FAdd(FAbs(y), FInt(n + 1))))

\* the matrices a and b agree up to rounding, for offsets of size n
MatClose(a, b, n) ==
    /\ a[3] = b[3]
    /\ \A i \in 1..2, j \in 1..3 : FClose(a[i][j], b[i][j], n)

\* scale_at by the factor first and then by the factor second, both at p
ZoomPair(m, first, second, p) ==
    scale_at64(scale_at64(m, first, p[1], p[2]), second, p[1], p[2])

\* C14 as claimed: with an image loaded, a zoom in followed by a zoom out at
\* the same position, or the two in the other order, gives back the matrix
\* of before.
C14_ZoomInOutRestores ==
    pil_image # None =>
        \A p \in ViewPointer :
            /\ ZoomPair(mat_affine, ZoomIn64, ZoomOut64, p) = mat_affine
            /\ ZoomPair(mat_affine, ZoomOut64, ZoomIn64, p) = mat_affine

\* C14 as amended: with an image loaded, a zoom in followed by a zoom out at
\* the same position (cx, cy), or the two in the other order, gives back the
\* matrix of before up to rounding: the bottom row is the same and every
\* other entry differs from its value before by at most
\* 2^-48 * (|entry| + |cx| + |cy| + 1).
C14_ZoomInOutRestoresNearly ==
    pil_image # None =>
        \A p \in ViewPointer :
            /\ MatClose(ZoomPair(mat_affine, ZoomIn64, ZoomOut64, p), mat_affine,
                        Abs(p[1]) + Abs(p[2]))
            /\ MatClose(ZoomPair(mat_affine, ZoomOut64, ZoomIn64, p), mat_affine,
                        Abs(p[1]) + Abs(p[2]))

\* the 4x2 image was zoomed twice and the matrix is the identity up to
\* rounding, but not the identity
C14_Witness ==
    /\ pil_image # None /\ pil_image.width = 4
    /\ ngestures = 2
    /\ old_event = None
    /\ mat_affine # FEye3
    /\ MatClose(mat_affine, FEye3, 4)

\* the matrix after drag events at p1 and then at p2, from the matrix m and
\* the recorded event old
DragTwice(m, old, p1, p2) ==
    LET s1 == drag_step(m, old, p1)
    IN  drag_step(s1.mat, s1.old, p2)

\* the left button is held on a loaded image: it was just pressed (drag_flag
\* is off) or drag events have followed the press
Dragging == pil_image # None /\ button1 /\ old_event # None

\* C15 as claimed: during a drag the net pan is the net pointer displacement
\* however the drag is split into events: two drag events, at p1 and then at
\* p2, leave the matrix that the translation by p2 minus the recorded
\* position gives, and record p2.
C15_DragIsNetDisplacement ==
    Dragging =>
        \A p1 \in Pointer, p2 \in Pointer :
            /\ DragTwice(mat_affine, old_event, p1, p2).old = Event(p2)
            /\ DragTwice(mat_affine, old_event, p1, p2).mat
                   = translate64(mat_affine, FInt(p2[1] - old_event.x),
                                 FInt(p2[2] - old_event.y))

\* C15 as amended: the same up to rounding: the two drag events leave the
\* linear part and the bottom row of that matrix, and translation entries
\* that differ from its entries by at most 2^-48 * (|entry| + d + 1), d the
\* sum of the distances moved.
C15_DragIsNetDisplacementNearly ==
    Dragging =>
        \A p1 \in Pointer, p2 \in Pointer :
            LET two == DragTwice(mat_affine, old_event, p1, p2)
                one == translate64(mat_affine, FInt(p2[1] - old_event.x),
                                   FInt(p2[2] - old_event.y))
                d == Abs(p1[1] - old_event.x) + Abs(p1[2] - old_event.y)
                     + Abs(p2[1] - p1[1]) + Abs(p2[2] - p1[2])
            IN  /\ two.old = Event(p2)
                /\ \A i \in 1..3, j \in 1..2 : two.mat[i][j] = one[i][j]
                /\ MatClose(two.mat, one, d)

\* the image was zoomed out and is being dragged: the translation entries
\* are not whole numbers
C15_Witness ==
    /\ Dragging /\ drag_flag
    /\ mat_affine[1][1] = ZoomOut64
    /\ mat_affine[1][3] # FZero
    /\ mat_affine[1][3].e < -52

====
